---------------------------- MODULE Spec2Model ----------------------------
(***************************************************************************)
(* Two QuantConnect algorithms of the repository as one state machine:     *)
(*   MSFT/main.py      MSFTBeatBuyHoldV4 (single instrument, vol scaled)   *)
(*   Seasonal/main.py  SeasonalETFRotationStrategy (multi instrument)      *)
(* The variable "algorithm" says which of the two is deployed; the engine  *)
(* (data feed, indicators, scheduler, portfolio, order execution) is the   *)
(* environment and is modelled by nondeterministic choice.                 *)
(*                                                                         *)
(* Numbers.  Fractions (weights, leverage, volatility, returns, momentum)  *)
(* are fixed-point integers in units of 1/Scale (basis points); a division *)
(* rounds down.  Prices and indicator values are integers.                 *)
(***************************************************************************)
EXTENDS Integers, Sequences, FiniteSets, TLC

VARIABLES
    algorithm,          \* "MSFT" or "Seasonal": the deployed class
    is_warming_up,      \* QCAlgorithm.is_warming_up
    \* ---- MSFTBeatBuyHoldV4 ----
    price_history,      \* RollingWindow, index 1 = newest (source index 0)
    return_history,     \* RollingWindow of simple returns, newest first
    last_price,         \* None or the last accepted price
    samples,            \* bars the engine has fed to sma_200, sma_50, rsi
    sma_200,            \* self.sma_200.current.value
    sma_50,             \* self.sma_50.current.value
    rsi_val,            \* self.rsi_indicator.current.value
    holdings_value,     \* self.portfolio["MSFT"].holdings_value
    total_value,        \* self.portfolio.total_portfolio_value
    accepted,           \* history: every price on_data has stored, oldest first
    \* ---- SeasonalETFRotationStrategy ----
    month,              \* self.time.month
    symbol_data,        \* ticker -> indicator snapshot (SymbolData + price)
    current_holdings,   \* self.current_holdings
    invested,           \* tickers with self.portfolio[symbol].invested
    fills,              \* the execution collaborator fills every set-weight instruction
    \* ---- record of the last event ----
    op,                 \* "init", "on_data", "rebalance", "portfolio", ...
    ran,                \* the last rebalance passed its guards
    orders,             \* instructions emitted by the last event, in order
    decision,           \* what the last rebalance computed
    previous            \* the rebalance before it, if the inputs are unchanged

vars == <<algorithm, is_warming_up, price_history, return_history, last_price,
          samples, sma_200, sma_50, rsi_val, holdings_value, total_value,
          accepted, month, symbol_data, current_holdings, invested, fills,
          op, ran, orders, decision, previous>>

msftVars == <<price_history, return_history, last_price, samples, sma_200,
              sma_50, rsi_val, holdings_value, total_value, accepted>>

seasonalVars == <<month, symbol_data, current_holdings, invested, fills>>

-----------------------------------------------------------------------------
(* Arithmetic helpers *)

\* one unit of a fraction: 1/Scale
Scale == 100 * 100

Min(a, b) == IF a <= b THEN a ELSE b

Max(a, b) == IF a >= b THEN a ELSE b

Abs(a) == IF a < 0 THEN -a ELSE a

RECURSIVE SumSeq(_)
SumSeq(s) == IF s = <<>> THEN 0 ELSE Head(s) + SumSeq(Tail(s))

RECURSIVE SumSq(_)
SumSq(s) == IF s = <<>> THEN 0 ELSE Head(s) * Head(s) + SumSq(Tail(s))

RECURSIVE SqrtSearch(_, _, _)
SqrtSearch(n, lo, hi) ==
    IF lo >= hi THEN lo
    ELSE LET mid == (lo + hi + 1) \div 2
         IN  IF mid * mid <= n THEN SqrtSearch(n, mid, hi)
             ELSE SqrtSearch(n, lo, mid - 1)

\* floor of the square root
Sqrt(n) == SqrtSearch(n, 0, 46340)

SeqToSet(s) == {s[i] : i \in 1..Len(s)}

\* Optional values: Python's None and a present value
None == [some |-> FALSE, value |-> 0]

Some(v) == [some |-> TRUE, value |-> v]

-----------------------------------------------------------------------------
(* Instructions handed to the execution collaborator *)

SetHoldings(sym, w) == [kind |-> "set_holdings", symbol |-> sym, weight |-> w]

Liquidate(sym) == [kind |-> "liquidate", symbol |-> sym, weight |-> 0]

NoDecision == [reason |-> "none"]

-----------------------------------------------------------------------------
(* MSFTBeatBuyHoldV4: parameters (initialize)                              *)
(* The window lengths are scaled down: the code only compares counts with  *)
(* them and indexes by them.  Source values: lookback_12m 252, the return  *)
(* window 25, the volatility sample 20, SMA periods 200 and 50, RSI 14.    *)

lookback_12m == 3

return_capacity == 3

vol_window == 2

sma_200_period == 3

sma_50_period == 2

rsi_period == 1

\* accepted bars after which the feed delivers no further valid bar
MaxBars == 5

target_vol == 2200

max_leverage == 20000

base_leverage == 12500

strong_trend_leverage == 16000

vol_floor == 1200

\* the literals of rebalance
strong_floor == 10000

moderate_floor == 9000

moderate_cap == 15000

rsi_dip == 35

rsi_overbought == 72

dip_boost_pct == 115

overbought_cut_pct == 92

rebalance_threshold == 1000

trading_days == 252

\* set_cash(100000), in thousands
initial_cash == 100

\* what the feed and the indicators can deliver
Prices == {100, 102}

BadPrices == {0}

Sma200Values == {99, 101}

Sma50Values == {100, 102}

RsiValues == {30, 50, 80}

HoldingsValues == {0, 90, 190, 200}

TotalValues == {0 - 50, 0, 100}

-----------------------------------------------------------------------------
(* RollingWindow[float](capacity).add: newest in front, oldest evicted *)

RollingAdd(w, x, capacity) ==
    SubSeq(<<x>> \o w, 1, Min(Len(w) + 1, capacity))

\* price / base - 1 as a fixed-point fraction
SimpleReturn(price, base) == (price * Scale) \div base - Scale

sma_200_is_ready == samples >= sma_200_period

sma_50_is_ready == samples >= sma_50_period

rsi_is_ready == samples > rsi_period

\* mutant: compares with the price lookback_12m - 1 bars back
get_12m_momentum_OffByOne ==
    IF Len(price_history) <= lookback_12m THEN None
    ELSE Some(SimpleReturn(price_history[1], price_history[lookback_12m]))

get_12m_momentum ==
    IF Len(price_history) <= lookback_12m THEN None
    ELSE Some(SimpleReturn(price_history[1], price_history[lookback_12m + 1]))

\* np.std(returns) * np.sqrt(252) over the newest vol_window returns
get_realized_vol ==
    IF Len(return_history) < vol_window THEN None
    ELSE LET returns == SubSeq(return_history, 1, vol_window)
             n == vol_window
             s1 == SumSeq(returns)
             s2 == SumSq(returns)
         IN  Some(Sqrt(trading_days * (n * s2 - s1 * s1)) \div n)

\* mutant: the dip boost is not capped at max_leverage
TargetPosition_UncappedDip(momentum, realized_vol, rsi, above_sma_200, above_sma_50, golden_cross) ==
    IF momentum <= 0 \/ ~above_sma_200
    THEN [target |-> 0, reason |-> "EXIT", base |-> 0]
    ELSE IF above_sma_50 /\ golden_cross
    THEN LET vol_den == Max(realized_vol, vol_floor)
             raw == (strong_trend_leverage * target_vol) \div vol_den
             position == Max(strong_floor, Min(max_leverage, raw))
         IN  IF rsi < rsi_dip
             THEN [target |-> (position * dip_boost_pct) \div 100,
                   reason |-> "STRONG + DIP", base |-> position]
             ELSE IF rsi > rsi_overbought
             THEN [target |-> Max(strong_floor, (position * overbought_cut_pct) \div 100),
                   reason |-> "STRONG + OVERBOUGHT", base |-> position]
             ELSE [target |-> position, reason |-> "STRONG TREND", base |-> position]
    ELSE LET vol_den == Max(realized_vol, vol_floor)
             position == (base_leverage * target_vol) \div vol_den
         IN  [target |-> Max(moderate_floor, Min(moderate_cap, position)),
              reason |-> "MODERATE", base |-> position]

\* lines 107-138: the sizing tiers
TargetPosition(momentum, realized_vol, rsi, above_sma_200, above_sma_50, golden_cross) ==
    IF momentum <= 0 \/ ~above_sma_200
    THEN [target |-> 0, reason |-> "EXIT", base |-> 0]
    ELSE IF above_sma_50 /\ golden_cross
    THEN LET vol_den == Max(realized_vol, vol_floor)
             raw == (strong_trend_leverage * target_vol) \div vol_den
             position == Max(strong_floor, Min(max_leverage, raw))
         IN  IF rsi < rsi_dip
             THEN [target |-> Min(max_leverage, (position * dip_boost_pct) \div 100),
                   reason |-> "STRONG + DIP", base |-> position]
             ELSE IF rsi > rsi_overbought
             THEN [target |-> Max(strong_floor, (position * overbought_cut_pct) \div 100),
                   reason |-> "STRONG + OVERBOUGHT", base |-> position]
             ELSE [target |-> position, reason |-> "STRONG TREND", base |-> position]
    ELSE LET vol_den == Max(realized_vol, vol_floor)
             position == (base_leverage * target_vol) \div vol_den
         IN  [target |-> Max(moderate_floor, Min(moderate_cap, position)),
              reason |-> "MODERATE", base |-> position]

\* line 141: holdings_value / total_portfolio_value, 0 for a degenerate portfolio
CurrentWeight(holdings, total) ==
    IF total > 0 THEN (holdings * Scale) \div total ELSE 0

\* mutant: a difference equal to the threshold trades
ShouldTrade_Inclusive(current, target) == Abs(current - target) >= rebalance_threshold

\* line 143
ShouldTrade(current, target) == Abs(current - target) > rebalance_threshold

\* mutant: the warm-up guard is missing
MsftReady_NoWarmUpGuard ==
    /\ sma_200_is_ready /\ sma_50_is_ready
    /\ rsi_is_ready
    /\ Len(price_history) > lookback_12m
    /\ get_12m_momentum.some /\ get_realized_vol.some

\* lines 83-96: every guard of rebalance
MsftReady ==
    /\ ~is_warming_up
    /\ sma_200_is_ready /\ sma_50_is_ready
    /\ rsi_is_ready
    /\ Len(price_history) > lookback_12m
    /\ get_12m_momentum.some /\ get_realized_vol.some

-----------------------------------------------------------------------------
(* MSFTBeatBuyHoldV4: events *)

Inputs == [decision |-> decision, orders |-> orders]

NoPrevious == [decision |-> NoDecision, orders |-> <<>>]

\* a data event or the end of warm-up changes what rebalance reads
ResetRecord(name) ==
    /\ op' = name
    /\ ran' = FALSE
    /\ orders' = <<>>
    /\ decision' = NoDecision
    /\ previous' = NoPrevious

\* The engine delivers a bar: it updates the registered indicators (their
\* values are the engine's) and then calls on_data (lines 60-69).
MsftBar(price) ==
    /\ algorithm = "MSFT"
    /\ price \in Prices => Len(accepted) < MaxBars
    /\ LET n == Min(samples + 1, Max(sma_200_period, rsi_period + 1))
       IN  /\ samples' = n
           /\ sma_200' \in (IF n >= sma_200_period THEN Sma200Values ELSE {0})
           /\ sma_50' \in (IF n >= sma_50_period THEN Sma50Values ELSE {0})
           /\ rsi_val' \in (IF n > rsi_period THEN RsiValues ELSE {0})
    /\ IF price <= 0
       THEN UNCHANGED <<price_history, return_history, last_price, accepted>>
       ELSE /\ price_history' = RollingAdd(price_history, price, lookback_12m + 1)
            /\ return_history' =
                 IF last_price.some /\ last_price.value > 0
                 THEN RollingAdd(return_history,
                                 SimpleReturn(price, last_price.value), return_capacity)
                 ELSE return_history
            /\ last_price' = Some(price)
            /\ accepted' = Append(accepted, price)
    /\ ResetRecord("on_data")
    /\ UNCHANGED <<algorithm, is_warming_up, holdings_value, total_value>>
    /\ UNCHANGED seasonalVars

\* on_data with a slice that holds no MSFT bar (line 61-62)
MsftNoData ==
    /\ algorithm = "MSFT"
    /\ ResetRecord("on_data")
    /\ UNCHANGED <<algorithm, is_warming_up>>
    /\ UNCHANGED msftVars
    /\ UNCHANGED seasonalVars

\* The execution collaborator and the market write the portfolio; a
\* position exists only once an order has been emitted.
MsftPortfolio(h, t) ==
    /\ algorithm = "MSFT"
    /\ ~is_warming_up
    /\ h # 0 => (holdings_value # 0 \/ orders # <<>>)
    /\ holdings_value' = h
    /\ total_value' = t
    /\ op' = "portfolio"
    /\ UNCHANGED <<algorithm, is_warming_up, price_history, return_history,
                   last_price, samples, sma_200, sma_50, rsi_val, accepted,
                   ran, orders, decision, previous>>
    /\ UNCHANGED seasonalVars

\* lines 82-145
MsftRebalance ==
    /\ algorithm = "MSFT"
    /\ op' = "rebalance"
    /\ IF ~MsftReady
       THEN /\ ran' = FALSE
            /\ orders' = <<>>
            /\ decision' = NoDecision
            /\ previous' = NoPrevious
       ELSE LET momentum == get_12m_momentum.value
                realized_vol == get_realized_vol.value
                current_price == price_history[1]
                above_sma_200 == current_price > sma_200
                above_sma_50 == current_price > sma_50
                golden_cross == sma_50 > sma_200
                sized == TargetPosition(momentum, realized_vol, rsi_val,
                                        above_sma_200, above_sma_50, golden_cross)
                current == CurrentWeight(holdings_value, total_value)
            IN  /\ ran' = TRUE
                /\ decision' = [target |-> sized.target, reason |-> sized.reason,
                                current |-> current]
                /\ orders' = IF ShouldTrade(current, sized.target)
                             THEN <<SetHoldings("MSFT", sized.target)>>
                             ELSE <<>>
                /\ previous' = IF ran THEN Inputs ELSE NoPrevious
    /\ UNCHANGED <<algorithm, is_warming_up>>
    /\ UNCHANGED msftVars
    /\ UNCHANGED seasonalVars

\* set_warm_up: the engine ends the warm-up period
WarmUpFinished ==
    /\ is_warming_up
    /\ is_warming_up' = FALSE
    /\ ResetRecord("warm_up_finished")
    /\ UNCHANGED algorithm
    /\ UNCHANGED msftVars
    /\ UNCHANGED seasonalVars

InitCommon ==
    /\ is_warming_up = TRUE
    /\ op = "init"
    /\ ran = FALSE
    /\ orders = <<>>
    /\ decision = NoDecision
    /\ previous = NoPrevious

InitMsftVars ==
    /\ price_history = <<>>
    /\ return_history = <<>>
    /\ last_price = None
    /\ samples = 0
    /\ sma_200 = 0
    /\ sma_50 = 0
    /\ rsi_val = 0
    /\ holdings_value = 0
    /\ total_value = initial_cash
    /\ accepted = <<>>

InitMSFT ==
    /\ algorithm = "MSFT"
    /\ InitCommon
    /\ InitMsftVars
    /\ month = 1
    /\ symbol_data = <<>>
    /\ current_holdings = <<>>
    /\ invested = {}
    /\ fills = TRUE

NextMSFT ==
    \/ \E price \in Prices \cup BadPrices : MsftBar(price)
    \/ MsftNoData
    \/ \E h \in HoldingsValues, t \in TotalValues : MsftPortfolio(h, t)
    \/ MsftRebalance
    \/ WarmUpFinished

SpecMSFT == InitMSFT /\ [][NextMSFT]_vars

-----------------------------------------------------------------------------
(* SeasonalETFRotationStrategy: parameters (initialize) *)

top_n == 3

min_etfs == 2

aggressive_etfs == <<"XLV", "XLI", "XLY", "XLB">>

defensive_etfs == <<"XLK", "XLP", "XLU", "QQQ">>

safety_etfs == <<"TLT", "SHY">>

market_etf == "SPY"

\* the tickers whose indicators rebalance reads
Consulted == SeqToSet(aggressive_etfs) \cup SeqToSet(defensive_etfs) \cup {market_etf}

\* SymbolData as the engine keeps it, with the security's price
Cold == [momentum_ready |-> FALSE, sma_ready |-> FALSE, roc_ready |-> FALSE,
         price |-> 0, sma |-> 0, roc |-> 0]

Below == [momentum_ready |-> TRUE, sma_ready |-> TRUE, roc_ready |-> TRUE,
          price |-> 99, sma |-> 100, roc |-> 0 - 1]

Up(r) == [momentum_ready |-> TRUE, sma_ready |-> TRUE, roc_ready |-> TRUE,
          price |-> 101, sma |-> 100, roc |-> r]

\* what the bars of a scheduling period can leave in the indicators of the
\* four candidates of a season (in the order of their list) and of the
\* benchmark, and the months the clock visits
GroupSnapshots ==
    { <<Up(5), Cold, Cold, Cold>>,
      <<Up(5), Up(7), Below, Cold>>,
      <<Below, Up(5), Up(5), Up(7)>>,
      <<Up(1), Up(2), Up(3), Up(4)>>,
      <<Below, Below, Up(5), Below>> }

BenchmarkSnapshots == {Cold, Below, Up(0)}

Months == {4, 5, 11}

-----------------------------------------------------------------------------
(* SeasonalETFRotationStrategy: the functions rebalance calls *)

\* lines 97-103
is_winter_season == month >= 11 \/ month <= 4

\* lines 105-114
is_market_bullish ==
    LET spy_data == symbol_data[market_etf]
    IN  IF ~spy_data.sma_ready THEN TRUE
        ELSE spy_data.price > spy_data.sma

\* lines 123-138: the candidates that pass, in the order of the list
RECURSIVE ScoreCandidates(_, _)
ScoreCandidates(etf_list, data) ==
    IF etf_list = <<>> THEN <<>>
    ELSE LET ticker == Head(etf_list)
             d == data[ticker]
             rest == ScoreCandidates(Tail(etf_list), data)
         IN  IF ~d.momentum_ready \/ ~d.sma_ready THEN rest
             ELSE IF d.price <= d.sma THEN rest
             ELSE <<[ticker |-> ticker,
                     score |-> IF d.roc_ready THEN d.roc ELSE 0]>> \o rest

\* mutant: an equal score goes in front (the sort is not stable)
RECURSIVE InsertDescending_Unstable(_, _)
InsertDescending_Unstable(sorted, x) ==
    IF sorted = <<>> THEN <<x>>
    ELSE IF Head(sorted).score > x.score
         THEN <<Head(sorted)>> \o InsertDescending_Unstable(Tail(sorted), x)
         ELSE <<x>> \o sorted

\* list.sort(key=score, reverse=True): stable, equal scores keep their order
RECURSIVE InsertDescending(_, _)
InsertDescending(sorted, x) ==
    IF sorted = <<>> THEN <<x>>
    ELSE IF Head(sorted).score >= x.score
         THEN <<Head(sorted)>> \o InsertDescending(Tail(sorted), x)
         ELSE <<x>> \o sorted

RECURSIVE SortDescending(_)
SortDescending(scores) ==
    IF scores = <<>> THEN <<>>
    ELSE InsertDescending(SortDescending(SubSeq(scores, 1, Len(scores) - 1)),
                          scores[Len(scores)])

\* lines 116-142
get_etf_scores(etf_list, data) == SortDescending(ScoreCandidates(etf_list, data))

\* mutant: the market regime is not consulted
TargetHoldings_IgnoresRegime(market_bullish, etf_scores) ==
    IF Len(etf_scores) >= min_etfs
    THEN [i \in 1..Min(top_n, Len(etf_scores)) |-> etf_scores[i].ticker]
    ELSE safety_etfs

\* lines 169-180
TargetHoldings(market_bullish, etf_scores) ==
    IF market_bullish /\ Len(etf_scores) >= min_etfs
    THEN [i \in 1..Min(top_n, Len(etf_scores)) |-> etf_scores[i].ticker]
    ELSE safety_etfs

\* mutant: the weight divides by the minimum count, not by the selection's size
TargetWeight_ByMinimum(target_holdings) ==
    IF target_holdings # <<>> THEN Scale \div min_etfs ELSE 0

\* line 183
TargetWeight(target_holdings) ==
    IF target_holdings # <<>> THEN Scale \div Len(target_holdings) ELSE 0

\* mutant: the first holding is never examined
RECURSIVE Liquidations_RestOnly(_, _, _)
Liquidations_RestOnly(holdings, target_holdings, is_invested) ==
    IF Len(holdings) <= 1 THEN <<>>
    ELSE LET ticker == holdings[Len(holdings)]
             rest == Liquidations_RestOnly(SubSeq(holdings, 1, Len(holdings) - 1),
                                           target_holdings, is_invested)
         IN  IF ticker \notin SeqToSet(target_holdings) /\ ticker \in is_invested
             THEN rest \o <<Liquidate(ticker)>>
             ELSE rest

\* mutant: the portfolio is not asked whether the holding is invested
RECURSIVE Liquidations_IgnoresInvested(_, _, _)
Liquidations_IgnoresInvested(holdings, target_holdings, is_invested) ==
    IF holdings = <<>> THEN <<>>
    ELSE LET ticker == Head(holdings)
             rest == Liquidations_IgnoresInvested(Tail(holdings), target_holdings,
                                                  is_invested)
         IN  IF ticker \notin SeqToSet(target_holdings)
             THEN <<Liquidate(ticker)>> \o rest
             ELSE rest

\* mutant: every invested holding is liquidated, kept in the target or not
RECURSIVE Liquidations_Everything(_, _, _)
Liquidations_Everything(holdings, target_holdings, is_invested) ==
    IF holdings = <<>> THEN <<>>
    ELSE LET ticker == Head(holdings)
             rest == Liquidations_Everything(Tail(holdings), target_holdings,
                                             is_invested)
         IN  IF ticker \in is_invested
             THEN <<Liquidate(ticker)>> \o rest
             ELSE rest

\* lines 186-191
RECURSIVE Liquidations(_, _, _)
Liquidations(holdings, target_holdings, is_invested) ==
    IF holdings = <<>> THEN <<>>
    ELSE LET ticker == Head(holdings)
             rest == Liquidations(Tail(holdings), target_holdings, is_invested)
         IN  IF ticker \notin SeqToSet(target_holdings) /\ ticker \in is_invested
             THEN <<Liquidate(ticker)>> \o rest
             ELSE rest

\* lines 194-197
SetWeights(target_holdings, weight) ==
    [i \in 1..Len(target_holdings) |-> SetHoldings(target_holdings[i], weight)]

-----------------------------------------------------------------------------
(* SeasonalETFRotationStrategy: events *)

primary_etfs == IF is_winter_season THEN aggressive_etfs ELSE defensive_etfs

\* An indicator that is ready stays ready.
Later(old, new) == old = Cold \/ new # Cold

\* A new scheduling period: the clock is at month m and the bars since the
\* last one have updated the indicators.  The candidates of the season in
\* force take the snapshot g, the benchmark spy; a candidate of the other
\* season, once its indicators are ready, trades below its average.
\* (Two such events in a row are one event.)
SeasonalData(m, g, spy) ==
    /\ algorithm = "Seasonal"
    /\ op # "on_data"
    /\ month' = m
    /\ LET winter == m >= 11 \/ m <= 4
           group == IF winter THEN aggressive_etfs ELSE defensive_etfs
           new == [t \in Consulted |->
                     IF t = market_etf THEN spy
                     ELSE IF \E i \in 1..Len(group) : group[i] = t
                     THEN g[CHOOSE i \in 1..Len(group) : group[i] = t]
                     ELSE IF symbol_data[t] = Cold THEN Cold ELSE Below]
       IN  /\ \A t \in Consulted : Later(symbol_data[t], new[t])
           /\ symbol_data' = new
    /\ ResetRecord("on_data")
    /\ UNCHANGED <<algorithm, is_warming_up, current_holdings, invested, fills>>
    /\ UNCHANGED msftVars

\* lines 144-203
SeasonalRebalance ==
    /\ algorithm = "Seasonal"
    /\ op' = "rebalance"
    /\ IF is_warming_up
       THEN /\ ran' = FALSE
            /\ orders' = <<>>
            /\ decision' = NoDecision
            /\ previous' = NoPrevious
            /\ UNCHANGED <<current_holdings, invested>>
       ELSE LET market_bullish == is_market_bullish
                etf_scores == get_etf_scores(primary_etfs, symbol_data)
                target_holdings == TargetHoldings(market_bullish, etf_scores)
                weight == TargetWeight(target_holdings)
                sells == Liquidations(current_holdings, target_holdings, invested)
                buys == SetWeights(target_holdings, weight)
            IN  /\ ran' = TRUE
                /\ orders' = sells \o buys
                /\ decision' = [reason |-> IF target_holdings = safety_etfs
                                           THEN "SAFETY" ELSE "NORMAL",
                                market_bullish |-> market_bullish,
                                etf_scores |-> etf_scores,
                                target_holdings |-> target_holdings,
                                weight |-> weight,
                                before |-> current_holdings,
                                was_invested |-> invested]
                /\ previous' = IF ran THEN Inputs ELSE NoPrevious
                /\ current_holdings' = target_holdings
                \* the orders are market orders, executed before the call
                \* returns: a liquidation closes the position; a set-weight
                \* instruction with a positive weight opens one when it is
                \* filled, and one of them may go unfilled unless fills
                /\ \E filled \in (IF fills THEN {SeqToSet(target_holdings)}
                                  ELSE {SeqToSet(target_holdings) \ {t} :
                                          t \in SeqToSet(target_holdings)}) :
                     invested' = (invested \ {sells[i].symbol : i \in 1..Len(sells)})
                                   \cup (IF weight > 0 THEN filled ELSE {})
    /\ UNCHANGED <<algorithm, is_warming_up, month, symbol_data, fills>>
    /\ UNCHANGED msftVars

InitSeasonal ==
    /\ algorithm = "Seasonal"
    /\ InitCommon
    /\ InitMsftVars
    /\ month \in Months
    /\ symbol_data = [t \in Consulted |-> Cold]
    /\ current_holdings = <<>>
    /\ invested = {}
    /\ fills \in BOOLEAN

NextSeasonal ==
    \/ \E m \in Months, g \in GroupSnapshots, spy \in BenchmarkSnapshots :
          SeasonalData(m, g, spy)
    \/ SeasonalRebalance
    \/ WarmUpFinished

SpecSeasonal == InitSeasonal /\ [][NextSeasonal]_vars

-----------------------------------------------------------------------------
(* Either algorithm *)

Init == InitMSFT \/ InitSeasonal

Next == NextMSFT \/ NextSeasonal

Spec == Init /\ [][Next]_vars

-----------------------------------------------------------------------------
(* The sizing tiers of MSFTBeatBuyHoldV4.rebalance as a function of their  *)
(* inputs: the inputs are drawn at the start and the tiers applied once.   *)

MomentumInputs == {0 - 300, 0 - 1, 0, 1, 300}

\* realized volatility 0.00 .. 0.60 in steps of 0.01, and the edges of the clamps
VolInputs == {100 * i : i \in 0..60} \cup {1199, 1201, 1759, 1761, 3519, 3521}

RsiInputs == {0, 34, 35, 36, 50, 71, 72, 73, 100}

InitSizer ==
    /\ algorithm = "MSFT"
    /\ is_warming_up = FALSE
    /\ op = "init"
    /\ ran = FALSE
    /\ orders = <<>>
    /\ previous = NoPrevious
    /\ InitMsftVars
    /\ month = 1
    /\ symbol_data = <<>>
    /\ current_holdings = <<>>
    /\ invested = {}
    /\ fills = TRUE
    /\ decision \in [reason : {"inputs"}, momentum : MomentumInputs,
                     realized_vol : VolInputs, rsi : RsiInputs,
                     above_sma_200 : BOOLEAN, above_sma_50 : BOOLEAN,
                     golden_cross : BOOLEAN]

ApplySizing ==
    /\ decision.reason = "inputs"
    /\ op' = "sized"
    /\ decision' = [reason |-> "sized", inputs |-> decision,
                    sized |-> TargetPosition(decision.momentum, decision.realized_vol,
                                             decision.rsi, decision.above_sma_200,
                                             decision.above_sma_50, decision.golden_cross)]
    /\ UNCHANGED <<algorithm, is_warming_up, ran, orders, previous>>
    /\ UNCHANGED msftVars
    /\ UNCHANGED seasonalVars

SpecSizer == InitSizer /\ [][ApplySizing]_vars

-----------------------------------------------------------------------------
(* The selection of SeasonalETFRotationStrategy.rebalance over every       *)
(* indicator state of a season's candidates: warm-up is over, the          *)
(* indicators are in any state, and rebalance is triggered.                *)

\* momentum ready, SMA not
MomentumOnly == [momentum_ready |-> TRUE, sma_ready |-> FALSE, roc_ready |-> FALSE,
                 price |-> 101, sma |-> 0, roc |-> 0]

\* price equal to the average
AtSma == [momentum_ready |-> TRUE, sma_ready |-> TRUE, roc_ready |-> TRUE,
          price |-> 100, sma |-> 100, roc |-> 7]

\* above the average, rate of change not ready
UpNoRoc == [momentum_ready |-> TRUE, sma_ready |-> TRUE, roc_ready |-> FALSE,
            price |-> 101, sma |-> 100, roc |-> 9]

CandidateStates == {Cold, MomentumOnly, AtSma, UpNoRoc, Up(0), Up(5)}

BenchmarkStates == {Cold, Below, AtSma, Up(0)}

InitSelection ==
    /\ algorithm = "Seasonal"
    /\ is_warming_up = FALSE
    /\ op = "on_data"
    /\ ran = FALSE
    /\ orders = <<>>
    /\ decision = NoDecision
    /\ previous = NoPrevious
    /\ InitMsftVars
    /\ month \in 1..12
    /\ \E g \in [1..4 -> CandidateStates], spy \in BenchmarkStates :
         symbol_data = [t \in Consulted |->
            IF t = market_etf THEN spy
            ELSE IF \E i \in 1..4 : primary_etfs[i] = t
            THEN g[CHOOSE i \in 1..4 : primary_etfs[i] = t]
            ELSE Cold]
    /\ current_holdings = <<>>
    /\ invested = {}
    /\ fills = TRUE

SpecSelection == InitSelection /\ [][SeasonalRebalance]_vars

-----------------------------------------------------------------------------
(* Properties of MSFTBeatBuyHoldV4 *)

\* C1: whatever momentum, realized volatility (>= 0), RSI and trend flags
\* reach the sizing step, the target is within [0, 2.0]: exactly 0 in the
\* exit tier (momentum <= 0 or price not above the 200-SMA); within
\* [1.0, 2.0] in the strong tier before and after the RSI adjustment (x1.15
\* capped at 2.0 when RSI < 35, x0.92 floored at 1.0 when RSI > 72,
\* unchanged otherwise); within [0.9, 1.5] in the moderate tier.
C1_TargetWithinTierBounds ==
    decision.reason = "sized" =>
        LET i == decision.inputs
            r == decision.sized
            exit == i.momentum <= 0 \/ ~i.above_sma_200
            strong == ~exit /\ i.above_sma_50 /\ i.golden_cross
        IN  /\ 0 <= r.target /\ r.target <= 2 * Scale
            /\ exit => r.target = 0
            /\ strong =>
                 /\ Scale <= r.base /\ r.base <= 2 * Scale
                 /\ Scale <= r.target /\ r.target <= 2 * Scale
                 /\ i.rsi < 35 => r.target = Min(2 * Scale, (r.base * 115) \div 100)
                 /\ i.rsi > 72 => r.target = Max(Scale, (r.base * 92) \div 100)
                 /\ (35 <= i.rsi /\ i.rsi <= 72) => r.target = r.base
            /\ (~exit /\ ~strong) =>
                 /\ (9 * Scale) \div 10 <= r.target
                 /\ r.target <= (15 * Scale) \div 10

\* a strong trend with RSI < 35 whose boosted position the cap cuts to 2.0
C1_Witness ==
    /\ decision.reason = "sized"
    /\ decision.sized.reason = "STRONG + DIP"
    /\ decision.sized.base < 2 * Scale
    /\ decision.sized.target = 2 * Scale
    /\ decision.inputs.realized_vol > 0

\* the weight rebalance compares with the target, as an exact fraction
\* h / t (0 for a portfolio worth nothing or less): |weight - target| > 0.10
C5_OutsideBand(h, t, target) ==
    IF t > 0 THEN Abs(h * Scale - target * t) > (Scale \div 10) * t
    ELSE Abs(target) > Scale \div 10

\* C5: a rebalance that passes its guards emits one set-weight instruction
\* for the target exactly when |currentWeight - target| > 0.10, with
\* currentWeight = holdingsValue / totalPortfolioValue, or 0 when the total
\* is <= 0; so a second consecutive rebalance with unchanged indicator
\* inputs computes the same target and emits nothing when the weight is
\* within the band (a difference of exactly 0.10 included).
C5_TradeOnlyOutsideBand ==
    (algorithm = "MSFT" /\ op = "rebalance" /\ ran) =>
        LET outside == C5_OutsideBand(holdings_value, total_value, decision.target)
        IN  /\ orders = IF outside THEN <<SetHoldings("MSFT", decision.target)>>
                        ELSE <<>>
            /\ previous # NoPrevious =>
                 /\ decision.target = previous.decision.target
                 /\ ~outside => orders = <<>>

\* the first call traded, the fill left the weight exactly 0.10 under the
\* target, and the second call with the same inputs emits nothing
C5_Witness ==
    /\ algorithm = "MSFT" /\ op = "rebalance" /\ ran
    /\ previous # NoPrevious
    /\ previous.orders # <<>>
    /\ total_value > 0
    /\ Abs(holdings_value * Scale - decision.target * total_value)
         = (Scale \div 10) * total_value
    /\ orders = <<>>

\* C9: over any sequence of price events, accepted or rejected, the price
\* window holds at most lookback + 1 entries and the return window at most
\* its capacity; 12-month momentum is None exactly while at most lookback
\* prices have been accepted; once it has a value it has one after every
\* later event; and the value compares the newest accepted price with the
\* one accepted exactly lookback accepted bars earlier.
C9_WindowsAndMomentum ==
    /\ [](algorithm = "MSFT" =>
            /\ Len(price_history) <= lookback_12m + 1
            /\ Len(return_history) <= return_capacity
            /\ Len(price_history) = Min(Len(accepted), lookback_12m + 1)
            /\ get_12m_momentum = None <=> Len(accepted) <= lookback_12m
            /\ get_12m_momentum.some =>
                 get_12m_momentum.value =
                     (accepted[Len(accepted)] * Scale)
                        \div accepted[Len(accepted) - lookback_12m] - Scale)
    /\ [][get_12m_momentum.some => get_12m_momentum'.some]_vars

\* the window has evicted its oldest price and momentum compares two
\* different prices, neither of them the evicted one
C9_Witness ==
    /\ algorithm = "MSFT"
    /\ Len(accepted) > lookback_12m + 1
    /\ op = "on_data"
    /\ get_12m_momentum.some
    /\ get_12m_momentum.value # 0
    /\ accepted[1] # accepted[Len(accepted) - lookback_12m]

-----------------------------------------------------------------------------
(* Properties of SeasonalETFRotationStrategy *)

IsSetWeight(o) == o.kind = "set_holdings"

IsLiquidate(o) == o.kind = "liquidate"

\* the seasonal group of the month: aggressive Nov-Apr, defensive May-Oct
SeasonGroup == IF month \in {11, 12, 1, 2, 3, 4} THEN <<"XLV", "XLI", "XLY", "XLB">>
               ELSE <<"XLK", "XLP", "XLU", "QQQ">>

\* a candidate passes the readiness and trend filters
Qualifies(t) ==
    /\ symbol_data[t].momentum_ready
    /\ symbol_data[t].sma_ready
    /\ symbol_data[t].price > symbol_data[t].sma

\* the benchmark's average is ready and its price is not above it
Bearish ==
    /\ symbol_data["SPY"].sma_ready
    /\ symbol_data["SPY"].price <= symbol_data["SPY"].sma

SeasonalRan == algorithm = "Seasonal" /\ op = "rebalance" /\ ran

\* C3: in a rebalance that runs, the new selection is the whole safety set
\* (TLT, SHY) whenever the benchmark is bearish or fewer than 2 candidates
\* of the season's group pass the readiness and trend filters, whatever the
\* scores; otherwise it is a non-empty selection of members of the season's
\* group and holds no safety instrument.
C3_SafetyFallback ==
    SeasonalRan =>
        LET qualifying == {t \in SeqToSet(SeasonGroup) : Qualifies(t)}
        IN  IF Bearish \/ Cardinality(qualifying) < 2
            THEN current_holdings = <<"TLT", "SHY">>
            ELSE /\ current_holdings # <<>>
                 /\ SeqToSet(current_holdings) \subseteq qualifying
                 /\ SeqToSet(current_holdings) \cap {"TLT", "SHY"} = {}

\* a bearish benchmark with every candidate qualifying at a positive score
C3_Witness ==
    /\ SeasonalRan
    /\ Bearish
    /\ \A t \in SeqToSet(SeasonGroup) : Qualifies(t) /\ symbol_data[t].roc > 0
    /\ current_holdings = <<"TLT", "SHY">>

\* C7: a rebalance that runs emits a non-empty list of set-weight
\* instructions, one per instrument of the selection and in its order, each
\* with the weight 1/|selection| (rounded down to the unit), so the weights
\* sum to at most 1; the selection has at most 3 instruments when taken from
\* the season's group and is the safety set otherwise; no instrument outside
\* the selection is given a positive weight.
C7_EqualWeights ==
    SeasonalRan =>
        LET sets == SelectSeq(orders, IsSetWeight)
            n == Len(current_holdings)
        IN  /\ n > 0
            /\ Len(sets) = n
            /\ \A i \in 1..n :
                 /\ sets[i].symbol = current_holdings[i]
                 /\ sets[i].weight * n <= Scale
                 /\ (sets[i].weight + 1) * n > Scale
                 /\ sets[i].weight = sets[1].weight
            /\ SumSeq([i \in 1..n |-> sets[i].weight]) <= Scale
            /\ \/ current_holdings = <<"TLT", "SHY">>
               \/ /\ n <= 3
                  /\ SeqToSet(current_holdings) \subseteq SeqToSet(SeasonGroup)
            /\ \A i \in 1..Len(orders) :
                 orders[i].weight > 0 => orders[i].symbol \in SeqToSet(current_holdings)

\* four candidates qualify and three are selected at a third each
C7_Witness ==
    /\ SeasonalRan
    /\ Len(decision.etf_scores) = 4
    /\ Len(current_holdings) = 3
    /\ \A i \in 1..3 : orders[i] = SetHoldings(current_holdings[i], 3333)

\* the place of a ticker in the season's list
PlaceInGroup(t) == CHOOSE i \in 1..Len(SeasonGroup) : SeasonGroup[i] = t

\* C8: get_etf_scores returns exactly the candidates whose momentum and SMA
\* are ready and whose price is strictly above the SMA, each once, scored by
\* its rate of change (0 when that indicator is not ready), by score
\* descending and, at equal scores, in the order of the candidate list; in
\* normal mode the selection is the first 3 (or fewer) of them, so no
\* unselected qualifying candidate has a strictly higher score than a
\* selected one.
C8_ScoresFilteredSortedStable ==
    SeasonalRan =>
        LET sc == decision.etf_scores
            qualifying == {t \in SeqToSet(SeasonGroup) : Qualifies(t)}
            score(t) == IF symbol_data[t].roc_ready THEN symbol_data[t].roc ELSE 0
        IN  /\ {sc[i].ticker : i \in 1..Len(sc)} = qualifying
            /\ Len(sc) = Cardinality(qualifying)
            /\ \A i \in 1..Len(sc) : sc[i].score = score(sc[i].ticker)
            /\ \A i, j \in 1..Len(sc) :
                 i < j =>
                   /\ sc[i].score >= sc[j].score
                   /\ sc[i].score = sc[j].score =>
                        PlaceInGroup(sc[i].ticker) < PlaceInGroup(sc[j].ticker)
            /\ decision.reason = "NORMAL" =>
                 /\ Len(current_holdings) = Min(3, Len(sc))
                 /\ \A i \in 1..Len(current_holdings) : current_holdings[i] = sc[i].ticker
                 /\ \A u \in qualifying \ SeqToSet(current_holdings) :
                      \A t \in SeqToSet(current_holdings) : ~(score(u) > score(t))

\* four candidates qualify, the sort has moved a later candidate to the
\* front, the third and fourth tie (the cut falls between them), and one
\* candidate is scored 0 because its rate of change is not ready
C8_Witness ==
    /\ SeasonalRan
    /\ decision.reason = "NORMAL"
    /\ Len(decision.etf_scores) = 4
    /\ decision.etf_scores[3].score = decision.etf_scores[4].score
    /\ decision.etf_scores[1].score > decision.etf_scores[3].score
    /\ PlaceInGroup(decision.etf_scores[1].ticker)
         > PlaceInGroup(decision.etf_scores[3].ticker)
    /\ \E i \in 1..4 : ~symbol_data[decision.etf_scores[i].ticker].roc_ready

\* C4 as stated: in a rebalance that runs, a liquidate instruction is
\* emitted for every instrument of the previous selection that is absent
\* from the new one, every liquidation precedes every set-weight
\* instruction, and afterwards the persisted selection is the new one.
C4_Original ==
    [][(algorithm = "Seasonal" /\ op' = "rebalance" /\ ran') =>
         /\ \A t \in SeqToSet(current_holdings) \ SeqToSet(current_holdings') :
              \E i \in 1..Len(orders') : orders'[i] = Liquidate(t)
         /\ \A i, j \in 1..Len(orders') :
              (IsLiquidate(orders'[i]) /\ IsSetWeight(orders'[j])) => i < j
         /\ current_holdings' = decision'.target_holdings]_vars

\* C4, amended: a liquidate instruction is emitted for exactly the
\* instruments of the previous selection that are absent from the new one
\* and that the portfolio reports as invested; every liquidation precedes
\* every set-weight instruction; afterwards the persisted selection is the
\* new one.
C4_LiquidateInvestedDropouts ==
    [][(algorithm = "Seasonal" /\ op' = "rebalance" /\ ran') =>
         /\ \A t \in SeqToSet(current_holdings) \ SeqToSet(current_holdings') :
              t \in invested <=> \E i \in 1..Len(orders') : orders'[i] = Liquidate(t)
         /\ \A i \in 1..Len(orders') :
              IsLiquidate(orders'[i]) =>
                 /\ orders'[i].symbol \in SeqToSet(current_holdings)
                 /\ orders'[i].symbol \notin SeqToSet(current_holdings')
         /\ \A i, j \in 1..Len(orders') :
              (IsLiquidate(orders'[i]) /\ IsSetWeight(orders'[j])) => i < j
         /\ current_holdings' = decision'.target_holdings]_vars

\* a rebalance has liquidated an invested instrument that left the
\* selection, ahead of the set-weight instructions, and kept another
C4_Witness ==
    /\ SeasonalRan
    /\ \E t \in SeqToSet(decision.before) \ SeqToSet(current_holdings) :
         /\ t \in decision.was_invested
         /\ orders[1] = Liquidate(t)
    /\ \E t \in SeqToSet(decision.before) : t \in SeqToSet(current_holdings)
    /\ IsSetWeight(orders[Len(orders)])

\* C6: no hysteresis: a rebalance that runs emits a set-weight instruction
\* for every instrument of the new selection, also when the selection is
\* the one already held; and a second consecutive rebalance with unchanged
\* inputs emits the same set-weight instructions as the first, emits no
\* liquidation and leaves the persisted selection as it was.
C6_ReassertsWeights ==
    SeasonalRan =>
        LET sets == SelectSeq(orders, IsSetWeight)
        IN  /\ {sets[i].symbol : i \in 1..Len(sets)} = SeqToSet(current_holdings)
            /\ sets # <<>>
            /\ previous # NoPrevious =>
                 /\ sets = SelectSeq(previous.orders, IsSetWeight)
                 /\ SelectSeq(orders, IsLiquidate) = <<>>
                 /\ decision.before = current_holdings
                 /\ current_holdings = previous.decision.target_holdings

\* the first call liquidated a holding and set three weights; the second,
\* with the same inputs, has set the same three weights again
C6_Witness ==
    /\ SeasonalRan
    /\ previous # NoPrevious
    /\ SelectSeq(previous.orders, IsLiquidate) # <<>>
    /\ Len(orders) = 3
    /\ decision.before = current_holdings

\* C10: when the execution collaborator fills every instruction and nothing
\* else trades, after any sequence of data events and rebalance triggers the
\* invested instruments are exactly the persisted selection: no instrument
\* that left the selection stays invested.
C10_NoOrphanedPosition ==
    (algorithm = "Seasonal" /\ fills) => invested = SeqToSet(current_holdings)

\* an instrument has left the selection and is no longer invested, while
\* the new selection is
C10_Witness ==
    /\ SeasonalRan
    /\ fills
    /\ \E t \in SeqToSet(decision.before) \ SeqToSet(current_holdings) :
         t \in decision.was_invested /\ t \notin invested
    /\ invested # {}

-----------------------------------------------------------------------------
(* The guards of rebalance, in both algorithms *)

\* an indicator or window that MSFTBeatBuyHoldV4.rebalance consults lacks history
MsftIndicatorNotReady ==
    \/ samples < sma_200_period
    \/ samples < sma_50_period
    \/ samples <= rsi_period
    \/ Len(accepted) <= lookback_12m
    \/ Len(accepted) - 1 < vol_window

\* an indicator that SeasonalETFRotationStrategy.rebalance consults lacks history
SeasonalIndicatorNotReady ==
    \/ ~symbol_data["SPY"].sma_ready
    \/ \E t \in SeqToSet(SeasonGroup) :
         \/ ~symbol_data[t].momentum_ready
         \/ ~symbol_data[t].sma_ready
         \/ ~symbol_data[t].roc_ready

\* the call emitted nothing and left the executor's state as it was
NoOp ==
    /\ ~ran'
    /\ orders' = <<>>
    /\ UNCHANGED <<current_holdings, invested>>
    /\ UNCHANGED msftVars

\* C2 as stated: in both variants a rebalance called during warm-up, or
\* while any indicator it consults is not ready, is a no-op.
C2_Original ==
    [][(/\ op' = "rebalance"
        /\ \/ is_warming_up
           \/ algorithm = "MSFT" /\ MsftIndicatorNotReady
           \/ algorithm = "Seasonal" /\ SeasonalIndicatorNotReady)
       => NoOp]_vars

\* C2, amended: a rebalance called during warm-up is a no-op in both
\* variants, and so is a single-instrument rebalance while any indicator or
\* window it consults is not ready; a multi-instrument rebalance after
\* warm-up always runs and emits set-weight instructions, whatever the
\* readiness of its indicators.
C2_NoOpWhenGated ==
    [][op' = "rebalance" =>
         /\ (\/ is_warming_up
             \/ algorithm = "MSFT" /\ MsftIndicatorNotReady) => NoOp
         /\ (algorithm = "Seasonal" /\ ~is_warming_up) =>
               (ran' /\ SelectSeq(orders', IsSetWeight) # <<>>)]_vars

\* warm-up is over and the SMAs and the RSI are ready, but the price window
\* is not full: the single-instrument rebalance has abstained
C2_Witness ==
    /\ algorithm = "MSFT"
    /\ op = "rebalance"
    /\ ~ran
    /\ orders = <<>>
    /\ ~is_warming_up
    /\ sma_200_is_ready /\ sma_50_is_ready /\ rsi_is_ready
    /\ Len(price_history) <= lookback_12m
    /\ Len(price_history) > 0

=============================================================================
